---- MODULE Spec2Model ----
(***************************************************************************)
(* PipeDecoratorHandler of ngtsc (packages/compiler-cli/src/ngtsc/         *)
(* annotations/src/pipe.ts): detect, analyze and compile of the @Pipe      *)
(* decorator, with the scope registry it writes and the collaborators it   *)
(* calls (partial evaluator, dependency resolution, metadata generation,   *)
(* code emitter).                                                          *)
(***************************************************************************)
EXTENDS Integers, Sequences, FiniteSets, TLC

\* ------------------------------------------------------------------ bounds
MaxRegistry == 2    \* registerPipe calls kept in the registry
MaxWrap == 1        \* parentheses / `as` wrappers around the argument
MaxStmts == 2       \* statements returned by the code emitter
MaxDecorators == 2  \* decorators attached to one declaration

\* ------------------------------------------------------- syntax / values
UNDEFINED == "undefined"

\* ts.ClassDeclaration: a node identity and clazz.name (text or undefined).
Classes ==
  { [id |-> 1, name |-> "UpperCasePipe"],
    [id |-> 2, name |-> UNDEFINED] }

\* A property initializer of the decorator's object literal: a node identity
\* and the source text of the expression.  NoExpr is "the map has no entry".
NoExpr == [id |-> 0, src |-> "none"]
NameSources == {"'uppercase'", "true", "42", "{}", "SomeClass", "dyn()"}
PureSources == {"'uppercase'", "true", "false", "dyn()"}
NameExprs == [id : {11}, src : NameSources]
PureExprs == [id : {12}, src : PureSources]

\* PartialEvaluator.evaluate: the compile-time value of an expression.
evaluate(expr) ==
  CASE expr.src = "'uppercase'" -> [t |-> "string", s |-> "uppercase", b |-> FALSE]
    [] expr.src = "true" -> [t |-> "boolean", s |-> "", b |-> TRUE]
    [] expr.src = "false" -> [t |-> "boolean", s |-> "", b |-> FALSE]
    [] expr.src = "42" -> [t |-> "number", s |-> "42", b |-> FALSE]
    [] expr.src = "{}" -> [t |-> "object", s |-> "Map", b |-> FALSE]
    [] expr.src = "SomeClass" -> [t |-> "object", s |-> "Reference", b |-> FALSE]
    [] OTHER -> [t |-> "object", s |-> "DynamicValue", b |-> FALSE]

\* JavaScript typeof on an evaluated value.
typeof(v) == v.t

\* The decorator's argument expression: `wraps` layers of parentheses or type
\* assertions around a node of kind `kind`.  The wrapper at depth d has node
\* identity id + d, so the innermost node is id + wraps.
ObjectLiterals ==
  [id : {20}, wraps : 0..MaxWrap, kind : {"ObjectLiteralExpression"},
   name : NameExprs \cup {NoExpr}, pure : PureExprs \cup {NoExpr}]
Identifiers ==
  [id : {20}, wraps : 0..MaxWrap, kind : {"Identifier"},
   name : {NoExpr}, pure : {NoExpr}]
ArgExprs == ObjectLiterals \cup Identifiers

ExtraArg == [id |-> 40, wraps |-> 0, kind |-> "Identifier", name |-> NoExpr, pure |-> NoExpr]

\* Decorator.args: null, or the call's argument list.
ArgLists ==
  { [isNull |-> TRUE, list |-> <<>>], [isNull |-> FALSE, list |-> <<>>] }
  \cup { [isNull |-> FALSE, list |-> <<a>>] : a \in ArgExprs }
  \cup { [isNull |-> FALSE, list |-> <<a, ExtraArg>>] :
           a \in { x \in ArgExprs : x.wraps = 0 /\ x.pure = NoExpr } }

\* Decorator: name, import origin (null when not imported), node, args.
NoImport == "null"
PipeDecorators ==
  [name : {"Pipe"}, import : {"@angular/core"}, node : {5}, args : ArgLists]

\* ------------------------------------------------------- collaborators
\* unwrapExpression: strips parentheses and type assertions.
RECURSIVE unwrapExpression(_)
unwrapExpression(node) ==
  IF node.wraps = 0 THEN node
  ELSE unwrapExpression([node EXCEPT !.wraps = @ - 1, !.id = @ + 1])

isObjectLiteralExpression(node) == node.wraps = 0 /\ node.kind = "ObjectLiteralExpression"

\* reflectObjectLiteral: the map property name -> initializer expression.
reflectObjectLiteral(node) == [name |-> node.name, pure |-> node.pure]
has(map, key) == map[key] # NoExpr
get(map, key) == map[key]

\* isAngularCore: the decorator was imported from @angular/core.
isAngularCore(decorator) ==
  decorator.import # NoImport /\ decorator.import = "@angular/core"

\* getValidConstructorDependencies: the resolved dependencies, or a throw.
DepsResults ==
  { [ok |-> TRUE, deps |-> <<"Injector">>], [ok |-> FALSE, deps |-> <<>>] }

\* generateSetClassMetadataCall: a statement or null.
NullStmt == "null"
MetadataStmts == {NullStmt, "setClassMetadata(clazz)"}

\* compilePipeFromMetadata: {expression, statements, type}.
RECURSIVE SeqsUpTo(_, _)
SeqsUpTo(S, n) ==
  IF n = 0 THEN {<<>>}
  ELSE LET shorter == SeqsUpTo(S, n - 1)
       IN shorter \cup { Append(q, x) : q \in { r \in shorter : Len(r) = n - 1 }, x \in S }

EmitterResults ==
  [expression : {"definePipe(...)"}, statements : SeqsUpTo({"s1", "s2"}, MaxStmts),
   type : {"PipeDefWithMeta"}]

\* ----------------------------------------------------------- analyze
NoAnalysis ==
  [meta |-> [name |-> "", type |-> [node |-> ""], pipeName |-> "", deps |-> <<>>, pure |-> FALSE],
   metadataStmt |-> NullStmt]

\* throw new FatalDiagnosticError(code, node, ...) leaving `trace` and `reg`.
Throw(code, node, trace, reg) ==
  [thrown |-> TRUE, code |-> code, node |-> node, analysis |-> NoAnalysis,
   trace |-> trace, registry |-> reg]

Called(fn, node) == [fn |-> fn, node |-> node]

\* buildOutput with the metadata statement generated before the dependencies
\* are resolved.
buildOutput_MetadataFirst(clazz, pipeName, pure, depsRes, stmt, trace, reg) ==
  LET t1 == Append(trace, Called("generateSetClassMetadataCall", clazz.id))
      t2 == Append(t1, Called("getValidConstructorDependencies", clazz.id))
  IN IF ~depsRes.ok
     THEN Throw("DEPENDENCY_RESOLUTION_FAILED", clazz.id, t2, reg)
     ELSE [thrown |-> FALSE, code |-> "", node |-> 0,
           analysis |->
             [meta |-> [name |-> clazz.name, type |-> [node |-> clazz.name],
                        pipeName |-> pipeName, deps |-> depsRes.deps, pure |-> pure],
              metadataStmt |-> stmt],
           trace |-> t2,
           registry |-> reg]

\* Lines 96-106: the returned object literal, evaluated left to right.
buildOutput(clazz, pipeName, pure, depsRes, stmt, trace, reg) ==
  LET t1 == Append(trace, Called("getValidConstructorDependencies", clazz.id))
  IN IF ~depsRes.ok
     THEN Throw("DEPENDENCY_RESOLUTION_FAILED", clazz.id, t1, reg)
     ELSE [thrown |-> FALSE, code |-> "", node |-> 0,
           analysis |->
             [meta |-> [name |-> clazz.name, type |-> [node |-> clazz.name],
                        pipeName |-> pipeName, deps |-> depsRes.deps, pure |-> pure],
              metadataStmt |-> stmt],
           trace |-> Append(t1, Called("generateSetClassMetadataCall", clazz.id)),
           registry |-> reg]

\* analyzePure without the assignment `pure = pureValue`.
analyzePure_KeepsDefault(pipe) ==
  IF has(pipe, "pure")
  THEN LET expr == get(pipe, "pure")
           pureValue == evaluate(expr)
       IN IF typeof(pureValue) # "boolean"
          THEN [thrown |-> TRUE, pure |-> TRUE, node |-> expr.id,
                calls |-> <<Called("evaluate", expr.id)>>]
          ELSE [thrown |-> FALSE, pure |-> TRUE, node |-> 0,
                calls |-> <<Called("evaluate", expr.id)>>]
  ELSE [thrown |-> FALSE, pure |-> TRUE, node |-> 0, calls |-> <<>>]

\* Lines 85-94: the optional `pure` field.
analyzePure(pipe) ==
  IF has(pipe, "pure")
  THEN LET expr == get(pipe, "pure")
           pureValue == evaluate(expr)
       IN IF typeof(pureValue) # "boolean"
          THEN [thrown |-> TRUE, pure |-> TRUE, node |-> expr.id,
                calls |-> <<Called("evaluate", expr.id)>>]
          ELSE [thrown |-> FALSE, pure |-> pureValue.b, node |-> 0,
                calls |-> <<Called("evaluate", expr.id)>>]
  ELSE [thrown |-> FALSE, pure |-> TRUE, node |-> 0, calls |-> <<>>]

\* analyzeName with registerPipe called before the typeof check.
analyzeName_RegistersBeforeTypeCheck(clazz, pipe, depsRes, stmt, reg) ==
  LET pipeNameExpr == get(pipe, "name")
      pipeName == evaluate(pipeNameExpr)
      t1 == <<Called("evaluate", pipeNameExpr.id)>>
      ref == [node |-> clazz]
      reg2 == Append(reg, [ref |-> ref, name |-> pipeName.s])
      t2 == Append(t1, Called("registerPipe", clazz.id))
  IN IF typeof(pipeName) # "string"
     THEN Throw("VALUE_HAS_WRONG_TYPE", pipeNameExpr.id, t2, reg2)
     ELSE LET p == analyzePure(pipe)
          IN IF p.thrown
             THEN Throw("VALUE_HAS_WRONG_TYPE", p.node, t2 \o p.calls, reg2)
             ELSE buildOutput(clazz, pipeName.s, p.pure, depsRes, stmt, t2 \o p.calls, reg2)

\* analyzeName with registerPipe called after the `pure` field is validated.
analyzeName_RegistersAfterPure(clazz, pipe, depsRes, stmt, reg) ==
  LET pipeNameExpr == get(pipe, "name")
      pipeName == evaluate(pipeNameExpr)
      t1 == <<Called("evaluate", pipeNameExpr.id)>>
  IN IF typeof(pipeName) # "string"
     THEN Throw("VALUE_HAS_WRONG_TYPE", pipeNameExpr.id, t1, reg)
     ELSE LET p == analyzePure(pipe)
              ref == [node |-> clazz]
              reg2 == Append(reg, [ref |-> ref, name |-> pipeName.s])
              t2 == Append(t1 \o p.calls, Called("registerPipe", clazz.id))
          IN IF p.thrown
             THEN Throw("VALUE_HAS_WRONG_TYPE", p.node, t1 \o p.calls, reg)
             ELSE buildOutput(clazz, pipeName.s, p.pure, depsRes, stmt, t2, reg2)

\* analyzeName with a typeof check that also lets numbers through.
analyzeName_AcceptsNumber(clazz, pipe, depsRes, stmt, reg) ==
  LET pipeNameExpr == get(pipe, "name")
      pipeName == evaluate(pipeNameExpr)
      t1 == <<Called("evaluate", pipeNameExpr.id)>>
  IN IF typeof(pipeName) # "string" /\ typeof(pipeName) # "number"
     THEN Throw("VALUE_HAS_WRONG_TYPE", pipeNameExpr.id, t1, reg)
     ELSE LET ref == [node |-> clazz]
              reg2 == Append(reg, [ref |-> ref, name |-> pipeName.s])
              t2 == Append(t1, Called("registerPipe", clazz.id))
              p == analyzePure(pipe)
          IN IF p.thrown
             THEN Throw("VALUE_HAS_WRONG_TYPE", p.node, t2 \o p.calls, reg2)
             ELSE buildOutput(clazz, pipeName.s, p.pure, depsRes, stmt, t2 \o p.calls, reg2)

\* Lines 76-106: the `name` field, the registration, then the rest.
analyzeName(clazz, pipe, depsRes, stmt, reg) ==
  LET pipeNameExpr == get(pipe, "name")
      pipeName == evaluate(pipeNameExpr)
      t1 == <<Called("evaluate", pipeNameExpr.id)>>
  IN IF typeof(pipeName) # "string"
     THEN Throw("VALUE_HAS_WRONG_TYPE", pipeNameExpr.id, t1, reg)
     ELSE LET ref == [node |-> clazz]
              reg2 == Append(reg, [ref |-> ref, name |-> pipeName.s])
              t2 == Append(t1, Called("registerPipe", clazz.id))
              p == analyzePure(pipe)
          IN IF p.thrown
             THEN Throw("VALUE_HAS_WRONG_TYPE", p.node, t2 \o p.calls, reg2)
             ELSE buildOutput(clazz, pipeName.s, p.pure, depsRes, stmt, t2 \o p.calls, reg2)

\* validateDecorator with the decorator checked before the declaration's name.
validateDecorator_ArgsBeforeName(clazz, decorator) ==
  IF decorator.args.isNull
  THEN [thrown |-> TRUE, code |-> "DECORATOR_NOT_CALLED", node |-> decorator.node, meta |-> ExtraArg]
  ELSE IF Len(decorator.args.list) # 1
  THEN [thrown |-> TRUE, code |-> "DECORATOR_ARITY_WRONG", node |-> decorator.node, meta |-> ExtraArg]
  ELSE IF clazz.name = UNDEFINED
  THEN [thrown |-> TRUE, code |-> "DECORATOR_ON_ANONYMOUS_CLASS", node |-> clazz.id, meta |-> ExtraArg]
  ELSE LET meta == unwrapExpression(decorator.args.list[1])
       IN IF ~isObjectLiteralExpression(meta)
          THEN [thrown |-> TRUE, code |-> "DECORATOR_ARG_NOT_LITERAL", node |-> meta.id, meta |-> meta]
          ELSE IF ~has(reflectObjectLiteral(meta), "name")
          THEN [thrown |-> TRUE, code |-> "PIPE_MISSING_NAME", node |-> meta.id, meta |-> meta]
          ELSE [thrown |-> FALSE, code |-> "", node |-> 0, meta |-> meta]

\* validateDecorator with an arity check that only rejects an empty argument list.
validateDecorator_ArityLessThanOne(clazz, decorator) ==
  IF clazz.name = UNDEFINED
  THEN [thrown |-> TRUE, code |-> "DECORATOR_ON_ANONYMOUS_CLASS", node |-> clazz.id, meta |-> ExtraArg]
  ELSE IF decorator.args.isNull
  THEN [thrown |-> TRUE, code |-> "DECORATOR_NOT_CALLED", node |-> decorator.node, meta |-> ExtraArg]
  ELSE IF Len(decorator.args.list) < 1
  THEN [thrown |-> TRUE, code |-> "DECORATOR_ARITY_WRONG", node |-> decorator.node, meta |-> ExtraArg]
  ELSE LET meta == unwrapExpression(decorator.args.list[1])
       IN IF ~isObjectLiteralExpression(meta)
          THEN [thrown |-> TRUE, code |-> "DECORATOR_ARG_NOT_LITERAL", node |-> meta.id, meta |-> meta]
          ELSE IF ~has(reflectObjectLiteral(meta), "name")
          THEN [thrown |-> TRUE, code |-> "PIPE_MISSING_NAME", node |-> meta.id, meta |-> meta]
          ELSE [thrown |-> FALSE, code |-> "", node |-> 0, meta |-> meta]

\* validateDecorator reporting the missing name at the decorator, not the literal.
validateDecorator_MissingNameAtDecorator(clazz, decorator) ==
  IF clazz.name = UNDEFINED
  THEN [thrown |-> TRUE, code |-> "DECORATOR_ON_ANONYMOUS_CLASS", node |-> clazz.id, meta |-> ExtraArg]
  ELSE IF decorator.args.isNull
  THEN [thrown |-> TRUE, code |-> "DECORATOR_NOT_CALLED", node |-> decorator.node, meta |-> ExtraArg]
  ELSE IF Len(decorator.args.list) # 1
  THEN [thrown |-> TRUE, code |-> "DECORATOR_ARITY_WRONG", node |-> decorator.node, meta |-> ExtraArg]
  ELSE LET meta == unwrapExpression(decorator.args.list[1])
       IN IF ~isObjectLiteralExpression(meta)
          THEN [thrown |-> TRUE, code |-> "DECORATOR_ARG_NOT_LITERAL", node |-> meta.id, meta |-> meta]
          ELSE IF ~has(reflectObjectLiteral(meta), "name")
          THEN [thrown |-> TRUE, code |-> "PIPE_MISSING_NAME", node |-> decorator.node, meta |-> meta]
          ELSE [thrown |-> FALSE, code |-> "", node |-> 0, meta |-> meta]

\* Lines 51-75: the checks on the declaration and the decorator's shape.
\* Returns the diagnostic to throw, or the object literal `meta`.
validateDecorator(clazz, decorator) ==
  IF clazz.name = UNDEFINED
  THEN [thrown |-> TRUE, code |-> "DECORATOR_ON_ANONYMOUS_CLASS", node |-> clazz.id, meta |-> ExtraArg]
  ELSE IF decorator.args.isNull
  THEN [thrown |-> TRUE, code |-> "DECORATOR_NOT_CALLED", node |-> decorator.node, meta |-> ExtraArg]
  ELSE IF Len(decorator.args.list) # 1
  THEN [thrown |-> TRUE, code |-> "DECORATOR_ARITY_WRONG", node |-> decorator.node, meta |-> ExtraArg]
  ELSE LET meta == unwrapExpression(decorator.args.list[1])
       IN IF ~isObjectLiteralExpression(meta)
          THEN [thrown |-> TRUE, code |-> "DECORATOR_ARG_NOT_LITERAL", node |-> meta.id, meta |-> meta]
          ELSE IF ~has(reflectObjectLiteral(meta), "name")
          THEN [thrown |-> TRUE, code |-> "PIPE_MISSING_NAME", node |-> meta.id, meta |-> meta]
          ELSE [thrown |-> FALSE, code |-> "", node |-> 0, meta |-> meta]

\* PipeDecoratorHandler.analyze.  depsRes and stmt are what the dependency
\* resolution and the metadata generation return if they are reached.
analyze(clazz, decorator, depsRes, stmt, reg) ==
  LET v == validateDecorator(clazz, decorator)
  IN IF v.thrown
     THEN Throw(v.code, v.node, <<>>, reg)
     ELSE analyzeName(clazz, reflectObjectLiteral(v.meta), depsRes, stmt, reg)

\* ------------------------------------------------------------ detect
NoDecorator ==
  [name |-> "", import |-> NoImport, node |-> 0, args |-> [isNull |-> TRUE, list |-> <<>>]]

DecoratorKinds ==
  [name : {"Pipe"}, import : {NoImport, "@angular/core", "my-lib"}]
  \cup [name : {"Component"}, import : {"@angular/core"}]

\* Decorator lists of a declaration; the i-th decorator is node 50 + i.
DecoratorLists ==
  UNION { { [i \in 1..n |->
               [name |-> f[i].name, import |-> f[i].import, node |-> 50 + i,
                args |-> [isNull |-> TRUE, list |-> <<>>]]] : f \in [1..n -> DecoratorKinds] }
          : n \in 0..MaxDecorators }

DetectInputs ==
  {[isNull |-> TRUE, list |-> <<>>]} \cup { [isNull |-> FALSE, list |-> l] : l \in DecoratorLists }

\* detect selecting the last matching decorator.
detect_LastMatch(core, node, decorators) ==
  IF decorators.isNull
  THEN [matched |-> FALSE, trigger |-> 0, metadata |-> NoDecorator]
  ELSE LET list == decorators.list
           hits == { i \in 1..Len(list) :
                      list[i].name = "Pipe" /\ (core \/ isAngularCore(list[i])) }
       IN IF hits # {}
          THEN LET last == CHOOSE i \in hits : \A j \in hits : i >= j
               IN [matched |-> TRUE, trigger |-> list[last].node, metadata |-> list[last]]
          ELSE [matched |-> FALSE, trigger |-> 0, metadata |-> NoDecorator]

\* PipeDecoratorHandler.detect.
detect(core, node, decorators) ==
  IF decorators.isNull
  THEN [matched |-> FALSE, trigger |-> 0, metadata |-> NoDecorator]
  ELSE LET list == decorators.list
           hits == { i \in 1..Len(list) :
                      list[i].name = "Pipe" /\ (core \/ isAngularCore(list[i])) }
       IN IF hits # {}
          THEN LET first == CHOOSE i \in hits : \A j \in hits : i <= j
               IN [matched |-> TRUE, trigger |-> list[first].node, metadata |-> list[first]]
          ELSE [matched |-> FALSE, trigger |-> 0, metadata |-> NoDecorator]

\* ----------------------------------------------------------- compile
\* compile putting the metadata statement in front of the emitter's statements.
compile_Unshift(node, analysis, res) ==
  LET statements == IF analysis.metadataStmt # NullStmt
                    THEN <<analysis.metadataStmt>> \o res.statements
                    ELSE res.statements
  IN [name |-> "ngPipeDef", initializer |-> res.expression,
      statements |-> statements, type |-> res.type]

\* PipeDecoratorHandler.compile; res is what compilePipeFromMetadata returned.
compile(node, analysis, res) ==
  LET statements == IF analysis.metadataStmt # NullStmt
                    THEN Append(res.statements, analysis.metadataStmt)
                    ELSE res.statements
  IN [name |-> "ngPipeDef", initializer |-> res.expression,
      statements |-> statements, type |-> res.type]

\* ------------------------------------------------------------- state
VARIABLES
  isCore,     \* constructor parameter of the handler
  registry,   \* scopeRegistry: the registerPipe calls received, in order
  call,       \* the most recent handler call: operation, inputs, result
  trace       \* collaborator calls made by the most recent handler call

vars == <<isCore, registry, call, trace>>

Init ==
  /\ isCore \in BOOLEAN
  /\ registry = <<>>
  /\ call = [op |-> "new"]
  /\ trace = <<>>

Detect ==
  \E node \in Classes, decorators \in DetectInputs :
    /\ call' = [op |-> "detect", node |-> node, decorators |-> decorators,
                result |-> detect(isCore, node, decorators)]
    /\ trace' = <<>>
    /\ UNCHANGED <<isCore, registry>>

Analyze ==
  /\ Len(registry) < MaxRegistry
  /\ \E clazz \in Classes, decorator \in PipeDecorators,
        depsRes \in DepsResults, stmt \in MetadataStmts :
       LET r == analyze(clazz, decorator, depsRes, stmt, registry)
       IN /\ call' = [op |-> "analyze", clazz |-> clazz, decorator |-> decorator,
                      result |-> [thrown |-> r.thrown, code |-> r.code, node |-> r.node,
                                  analysis |-> r.analysis]]
          /\ trace' = r.trace
          /\ registry' = r.registry
          /\ UNCHANGED isCore

Compile ==
  /\ call.op = "analyze"
  /\ ~call.result.thrown
  /\ \E res \in EmitterResults :
       /\ call' = [op |-> "compile", node |-> call.clazz, analysis |-> call.result.analysis,
                   res |-> res, result |-> compile(call.clazz, call.result.analysis, res)]
       /\ trace' = <<Called("compilePipeFromMetadata", call.clazz.id)>>
       /\ UNCHANGED <<isCore, registry>>

Next == Detect \/ Analyze \/ Compile

Spec == Init /\ [][Next]_vars

\* ------------------------------------------------------- properties
\* The inputs of the most recent analyze call, read off the call record.
IsAnalyze == call.op = "analyze"
IsDetect == call.op = "detect"
IsCompile == call.op = "compile"

Named(c) == c.clazz.name # UNDEFINED
Invoked(c) == ~c.decorator.args.isNull
OneArg(c) == Invoked(c) /\ Len(c.decorator.args.list) = 1
Arg(c) == c.decorator.args.list[1]
LiteralArg(c) == OneArg(c) /\ Arg(c).kind = "ObjectLiteralExpression"
LiteralNode(c) == Arg(c).id + Arg(c).wraps
NameGiven(c) == LiteralArg(c) /\ Arg(c).name # NoExpr
NameIsString(c) == NameGiven(c) /\ evaluate(Arg(c).name).t = "string"
PureGiven(c) == LiteralArg(c) /\ Arg(c).pure # NoExpr
PureIsBoolean(c) == PureGiven(c) /\ evaluate(Arg(c).pure).t = "boolean"

\* Steps 1-6 of analyze all pass.
IdentifierKnown(c) == Named(c) /\ NameIsString(c)

\* The (reference, name) pair analyze hands to registerPipe.
PipePair(c) == [ref |-> [node |-> c.clazz], name |-> evaluate(Arg(c).name).s]

Count(t, fn) == Cardinality({ i \in DOMAIN t : t[i].fn = fn })

ShapeCodes ==
  {"DECORATOR_ON_ANONYMOUS_CLASS", "DECORATOR_NOT_CALLED", "DECORATOR_ARITY_WRONG",
   "DECORATOR_ARG_NOT_LITERAL", "PIPE_MISSING_NAME"}

\* C1: analyze calls registerPipe exactly once, with (Reference(clazz), the
\* evaluated name), iff the declaration is named, the decorator is called with
\* exactly one argument that unwraps to an object literal, and that literal has
\* a `name` evaluating to a string; otherwise it calls it zero times.  The
\* entry is appended to the registry and stays there when `pure` or the
\* dependency resolution fails afterwards.
C1_RegisteredIffIdentifierKnown ==
  /\ [](IsAnalyze =>
          IF IdentifierKnown(call)
          THEN /\ Count(trace, "registerPipe") = 1
               /\ registry # <<>>
               /\ registry[Len(registry)] = PipePair(call)
          ELSE Count(trace, "registerPipe") = 0)
  /\ [][IsAnalyze' =>
          registry' = IF IdentifierKnown(call') THEN Append(registry, PipePair(call'))
                      ELSE registry]_vars

C1_Witness ==
  /\ IsAnalyze
  /\ IdentifierKnown(call)
  /\ call.result.thrown
  /\ call.result.code = "VALUE_HAS_WRONG_TYPE"
  /\ registry # <<>>

\* C2 (as claimed): whenever analyze raises a diagnostic, the registry after the
\* call equals the registry before it.
C2_Original ==
  [][(IsAnalyze' /\ call'.result.thrown) => registry' = registry]_vars

\* C2 (amended): a call that raises one of the diagnostics of steps 1-6 leaves
\* the registry as it was; a call that raises VALUE_HAS_WRONG_TYPE for `pure`
\* or fails in dependency resolution leaves the registry extended by exactly
\* the entry registered at line 83.
C2_RegistryAfterDiagnostic ==
  [][(IsAnalyze' /\ call'.result.thrown) =>
       LET r == call'.result
       IN IF \/ r.code \in ShapeCodes
             \/ (r.code = "VALUE_HAS_WRONG_TYPE" /\ r.node = Arg(call').name.id)
          THEN registry' = registry
          ELSE /\ r.code = "DEPENDENCY_RESOLUTION_FAILED"
                  \/ (r.code = "VALUE_HAS_WRONG_TYPE" /\ r.node = Arg(call').pure.id)
               /\ registry' = Append(registry, PipePair(call'))]_vars

C2_Witness ==
  /\ IsAnalyze
  /\ call.result.thrown
  /\ call.result.code = "DEPENDENCY_RESOLUTION_FAILED"
  /\ Len(registry) = 2

\* C3: a declaration without a name fails with DECORATOR_ON_ANONYMOUS_CLASS at
\* the declaration, whatever the decorator's arguments are, and nothing is
\* registered.
C3_AnonymousDeclaration ==
  /\ []((IsAnalyze /\ ~Named(call)) =>
          /\ call.result.thrown
          /\ call.result.code = "DECORATOR_ON_ANONYMOUS_CLASS"
          /\ call.result.node = call.clazz.id
          /\ Count(trace, "registerPipe") = 0)
  /\ [][(IsAnalyze' /\ ~Named(call')) => registry' = registry]_vars

C3_Witness ==
  /\ IsAnalyze
  /\ ~Named(call)
  /\ NameIsString(call)
  /\ call.result.thrown
  /\ registry # <<>>

\* C4 (as claimed): a decorator called with zero or more than one argument
\* fails with DECORATOR_ARITY_WRONG.
C4_Original ==
  (IsAnalyze /\ Invoked(call) /\ Len(call.decorator.args.list) # 1) =>
    (call.result.thrown /\ call.result.code = "DECORATOR_ARITY_WRONG")

\* C4 (amended): on a named declaration, a decorator called with zero or more
\* than one argument fails with DECORATOR_ARITY_WRONG.
C4_ArityWrong ==
  (IsAnalyze /\ Named(call) /\ Invoked(call) /\ Len(call.decorator.args.list) # 1) =>
    (call.result.thrown /\ call.result.code = "DECORATOR_ARITY_WRONG")

C4_Witness ==
  /\ IsAnalyze
  /\ Named(call)
  /\ Invoked(call)
  /\ Len(call.decorator.args.list) = 2
  /\ call.decorator.args.list[1].kind = "ObjectLiteralExpression"
  /\ call.result.thrown

\* What C5 promises of a call: PIPE_MISSING_NAME at the literal, nothing
\* registered.
MissingNameOutcome ==
  /\ call.result.thrown
  /\ call.result.code = "PIPE_MISSING_NAME"
  /\ call.result.node = LiteralNode(call)
  /\ Count(trace, "registerPipe") = 0

\* C5 (as claimed): an object-literal argument without `name` fails with
\* PIPE_MISSING_NAME at the literal, with no registry write and no artifact.
C5_Original ==
  (IsAnalyze /\ LiteralArg(call) /\ ~NameGiven(call)) => MissingNameOutcome

\* C5 (amended): on a named declaration, an object-literal argument without
\* `name` (with or without `pure`) fails with PIPE_MISSING_NAME at the
\* literal; the registry is not written and compile does not follow.
C5_MissingName ==
  /\ []((IsAnalyze /\ Named(call) /\ LiteralArg(call) /\ ~NameGiven(call)) =>
          MissingNameOutcome)
  /\ [][(IsAnalyze' /\ Named(call') /\ LiteralArg(call') /\ ~NameGiven(call')) =>
          registry' = registry]_vars
  /\ [][(IsAnalyze /\ Named(call) /\ LiteralArg(call) /\ ~NameGiven(call)) =>
          ~IsCompile']_vars

C5_Witness ==
  /\ IsAnalyze
  /\ Named(call)
  /\ LiteralArg(call)
  /\ ~NameGiven(call)
  /\ PureGiven(call)
  /\ Arg(call).wraps > 0
  /\ call.result.thrown

\* What C6 promises of a call: VALUE_HAS_WRONG_TYPE at the name expression,
\* raised before registerPipe is called.
NameWrongTypeOutcome ==
  /\ call.result.thrown
  /\ call.result.code = "VALUE_HAS_WRONG_TYPE"
  /\ call.result.node = Arg(call).name.id
  /\ Count(trace, "registerPipe") = 0

\* C6 (as claimed): a literal whose `name` evaluates to a non-string fails with
\* VALUE_HAS_WRONG_TYPE at the name expression, before the registry is written.
C6_Original ==
  (IsAnalyze /\ NameGiven(call) /\ ~NameIsString(call)) => NameWrongTypeOutcome

\* C6 (amended): on a named declaration, a literal whose `name` evaluates to a
\* non-string fails with VALUE_HAS_WRONG_TYPE at the name expression, before
\* the registry is written.
C6_NameWrongType ==
  /\ []((IsAnalyze /\ Named(call) /\ NameGiven(call) /\ ~NameIsString(call)) =>
          NameWrongTypeOutcome)
  /\ [][(IsAnalyze' /\ Named(call') /\ NameGiven(call') /\ ~NameIsString(call')) =>
          registry' = registry]_vars

C6_Witness ==
  /\ IsAnalyze
  /\ Named(call)
  /\ NameGiven(call)
  /\ evaluate(Arg(call).name).t = "number"
  /\ call.result.thrown

\* The `pure` flag of a successful analysis: true without a `pure` field, the
\* evaluated boolean with one.
PureOfRecord ==
  (IsAnalyze /\ ~call.result.thrown) =>
    /\ ~PureGiven(call) => call.result.analysis.meta.pure = TRUE
    /\ PureGiven(call) =>
         /\ PureIsBoolean(call)
         /\ call.result.analysis.meta.pure = evaluate(Arg(call).pure).b

PureWrongTypeOutcome ==
  /\ call.result.thrown
  /\ call.result.code = "VALUE_HAS_WRONG_TYPE"
  /\ call.result.node = Arg(call).pure.id
  /\ call.result.analysis = NoAnalysis

\* C7 (as claimed): the record's `pure` is true without a `pure` field and the
\* evaluated boolean with one; a `pure` evaluating to a non-boolean fails with
\* VALUE_HAS_WRONG_TYPE at the `pure` expression and returns no record.
C7_Original ==
  /\ PureOfRecord
  /\ (IsAnalyze /\ PureGiven(call) /\ ~PureIsBoolean(call)) => PureWrongTypeOutcome

\* C7 (amended): as claimed, where the failure for a non-boolean `pure` is
\* raised when steps 1-6 pass (named declaration, `name` present and a string).
C7_PureFlag ==
  /\ PureOfRecord
  /\ (IsAnalyze /\ IdentifierKnown(call) /\ PureGiven(call) /\ ~PureIsBoolean(call)) =>
       PureWrongTypeOutcome

C7_Witness ==
  /\ IsAnalyze
  /\ ~call.result.thrown
  /\ PureGiven(call)
  /\ call.result.analysis.meta.pure = FALSE

\* The first of steps 1-8 that fails on the call's inputs, 0 if none does.
FailingSteps(c) ==
  { k \in 1..8 :
      \/ k = 1 /\ ~Named(c)
      \/ k = 2 /\ ~Invoked(c)
      \/ k = 3 /\ Invoked(c) /\ ~OneArg(c)
      \/ k = 4 /\ OneArg(c) /\ ~LiteralArg(c)
      \/ k = 5 /\ LiteralArg(c) /\ ~NameGiven(c)
      \/ k = 6 /\ NameGiven(c) /\ ~NameIsString(c)
      \/ k = 8 /\ PureGiven(c) /\ ~PureIsBoolean(c) }

FirstFailing(c) ==
  IF FailingSteps(c) = {} THEN 0
  ELSE CHOOSE k \in FailingSteps(c) : \A j \in FailingSteps(c) : k <= j

CodeOfStep ==
  <<"DECORATOR_ON_ANONYMOUS_CLASS", "DECORATOR_NOT_CALLED", "DECORATOR_ARITY_WRONG",
    "DECORATOR_ARG_NOT_LITERAL", "PIPE_MISSING_NAME", "VALUE_HAS_WRONG_TYPE",
    "", "VALUE_HAS_WRONG_TYPE", "DEPENDENCY_RESOLUTION_FAILED", "">>

\* The collaborator calls of steps 1..k, in the order of the steps.
CallsThrough(c, k) ==
  (IF k >= 6 THEN <<Called("evaluate", Arg(c).name.id)>> ELSE <<>>)
  \o (IF k >= 7 THEN <<Called("registerPipe", c.clazz.id)>> ELSE <<>>)
  \o (IF k >= 8 /\ PureGiven(c) THEN <<Called("evaluate", Arg(c).pure.id)>> ELSE <<>>)
  \o (IF k >= 9 THEN <<Called("getValidConstructorDependencies", c.clazz.id)>> ELSE <<>>)
  \o (IF k >= 10 THEN <<Called("generateSetClassMetadataCall", c.clazz.id)>> ELSE <<>>)

\* C8: analyze runs its steps in the fixed order and stops at the first one
\* that fails: the diagnostic is that step's, and the collaborator calls made
\* are exactly those of the steps up to it.  The evaluator is not called when
\* a shape check fails, and dependency resolution is not called when the call
\* fails with VALUE_HAS_WRONG_TYPE.
C8_StepOrder ==
  IsAnalyze =>
    LET f == FirstFailing(call)
        r == call.result
    IN /\ IF f # 0
          THEN r.thrown /\ r.code = CodeOfStep[f] /\ trace = CallsThrough(call, f)
          ELSE \/ r.thrown /\ r.code = CodeOfStep[9] /\ trace = CallsThrough(call, 9)
               \/ ~r.thrown /\ trace = CallsThrough(call, 10)
       /\ (r.thrown /\ r.code \in ShapeCodes) => Count(trace, "evaluate") = 0
       /\ (r.thrown /\ r.code = "VALUE_HAS_WRONG_TYPE") =>
            Count(trace, "getValidConstructorDependencies") = 0

C8_Witness ==
  /\ IsAnalyze
  /\ Named(call)
  /\ NameGiven(call) /\ ~NameIsString(call)
  /\ PureGiven(call) /\ ~PureIsBoolean(call)
  /\ call.result.thrown
  /\ Len(trace) = 1

\* The decorators of the detect call that detect may select.
Selectable(d) == d.name = "Pipe" /\ (isCore \/ d.import = "@angular/core")

\* C9: detect returns no match when the decorator list is absent or holds no
\* decorator named Pipe that is (in core mode or) imported from the core;
\* otherwise the first such decorator of the list, as trigger node and as
\* metadata.  It writes no registry entry and calls no evaluator.
C9_DetectFirstMatch ==
  /\ [](IsDetect =>
          LET list == call.decorators.list
              r == call.result
          IN /\ IF call.decorators.isNull \/ \A i \in DOMAIN list : ~Selectable(list[i])
                THEN ~r.matched
                ELSE /\ r.matched
                     /\ \E i \in DOMAIN list :
                          /\ Selectable(list[i])
                          /\ \A j \in 1..(i - 1) : ~Selectable(list[j])
                          /\ r.trigger = list[i].node
                          /\ r.metadata = list[i]
             /\ Count(trace, "evaluate") = 0
             /\ Count(trace, "registerPipe") = 0)
  /\ [][IsDetect' => registry' = registry]_vars

C9_Witness ==
  /\ IsDetect
  /\ ~call.decorators.isNull
  /\ Len(call.decorators.list) = 2
  /\ ~Selectable(call.decorators.list[1])
  /\ call.decorators.list[1].name = "Pipe"
  /\ Selectable(call.decorators.list[2])
  /\ call.result.matched

\* C10: compile returns the artifact ngPipeDef with the emitter's initializer
\* and type; its statements are the emitter's, in order, followed by the
\* record's metadata statement when that is not null.  It raises nothing and
\* writes no registry entry.
C10_CompileArtifact ==
  /\ [](IsCompile =>
          LET a == call.result
              emitted == call.res.statements
              stmt == call.analysis.metadataStmt
          IN /\ a.name = "ngPipeDef"
             /\ a.initializer = call.res.expression
             /\ a.type = call.res.type
             /\ \A i \in 1..Len(emitted) : a.statements[i] = emitted[i]
             /\ IF stmt # NullStmt
                THEN /\ Len(a.statements) = Len(emitted) + 1
                     /\ a.statements[Len(a.statements)] = stmt
                ELSE Len(a.statements) = Len(emitted)
             /\ Count(trace, "registerPipe") = 0)
  /\ [][IsCompile' => registry' = registry]_vars

C10_Witness ==
  /\ IsCompile
  /\ call.analysis.metadataStmt # NullStmt
  /\ call.res.statements = <<"s1", "s2">>
  /\ Len(call.result.statements) = 3

====
